---- MODULE Spec2Model ----
(***************************************************************************)
(* A model of the backtest workspace of defi-debil (frontend/app): the     *)
(* portfolio and strategy list kept by App, the per-card module state, the *)
(* sequential allocation (seqRemaining), the run blockers, the request     *)
(* built by handleRunBacktest, and the merge of the results                *)
(* (BacktestResults).                                                      *)
(*                                                                         *)
(* Numbers.  A JS Number is modelled as a fixed-point integer counting     *)
(* units of 1/Scale (ten-thousandths); the texts and percentages used as   *)
(* inputs are chosen so that every product and quotient below is exact.    *)
(* NaN is a separate value.  A text (the value of an <input>) is a         *)
(* sequence of one-character strings and is parsed as parseFloat parses.   *)
(***************************************************************************)
EXTENDS Integers, Sequences, FiniteSets, TLC

Scale == 100 * 100

NaN == [nan |-> TRUE, v |-> 0]

Num(n) == [nan |-> FALSE, v |-> n]

Max(a, b) == IF a >= b THEN a ELSE b

Min(a, b) == IF a <= b THEN a ELSE b

RECURSIVE Pow10(_)
Pow10(n) == IF n = 0 THEN 1 ELSE 10 * Pow10(n - 1)

Digits == {"0", "1", "2", "3", "4", "5", "6", "7", "8", "9"}

DigitVal(c) ==
    CASE c = "0" -> 0 [] c = "1" -> 1 [] c = "2" -> 2 [] c = "3" -> 3
      [] c = "4" -> 4 [] c = "5" -> 5 [] c = "6" -> 6 [] c = "7" -> 7
      [] c = "8" -> 8 [] c = "9" -> 9

\* The number of consecutive digits of t starting at position i.
RECURSIVE DigitRun(_, _)
DigitRun(t, i) ==
    IF i <= Len(t) /\ t[i] \in Digits THEN 1 + DigitRun(t, i + 1) ELSE 0

\* The value of the n digits of t starting at position i.
RECURSIVE DigitsValue(_, _, _)
DigitsValue(t, i, n) ==
    IF n = 0 THEN 0
    ELSE 10 * DigitsValue(t, i, n - 1) + DigitVal(t[i + n - 1])

\* String(undefined): what parseFloat sees for a missing field.
Undefined == <<"u", "n", "d", "e", "f", "i", "n", "e", "d">>

\* parseFloat: an optional sign, digits, an optional fraction; the longest
\* such prefix is the number, and NaN when it holds no digit.
ParseFloat(t) ==
    LET s    == IF Len(t) > 0 /\ t[1] \in {"-", "+"} THEN 1 ELSE 0
        neg  == s = 1 /\ t[1] = "-"
        ni   == DigitRun(t, s + 1)
        dot  == Len(t) >= s + ni + 1 /\ t[s + ni + 1] = "."
        nf   == IF dot THEN DigitRun(t, s + ni + 2) ELSE 0
        kept == Min(nf, 4)
        mag  == DigitsValue(t, s + 1, ni) * Scale
                  + DigitsValue(t, s + ni + 2, kept) * Pow10(4 - kept)
    IN  IF ni + nf = 0 THEN NaN
        ELSE Num(IF neg THEN 0 - mag ELSE mag)

\* `x || d` for a Number x: NaN and 0 are falsy.
OrElse(x, d) == IF x.nan \/ x.v = 0 THEN d ELSE x.v

\* `obj?.field` of a config object; {} has no field.
Field(c, f) == IF f \in DOMAIN c THEN c[f] ELSE Undefined

\* parseFloat(config.field) || 0
Amount(c, f) == OrElse(ParseFloat(Field(c, f)), 0)

Assets == {"BNB", "USDC"}

AssetOrder == <<"BNB", "USDC">>

CURRENT_PRICE == 3113300

----------------------------------------------------------------------------
(* State *)

VARIABLES
    currentView,      \* App: 'empty' | 'newBacktest'
    portfolio,        \* App: list of [asset, balance (text)]
    strategies,       \* App: list of [type, allocation, asset, config]
    modules,          \* per strategy card: the module's own useState config
    isAuthenticated,  \* AuthProvider
    isConnected,      \* wagmi useAccount
    modalState,       \* AuthProvider: "null" | "connect" | "sign" |
                      \*   "loading" | "success"
    loading,          \* Workspace
    error,            \* Workspace: "null" or a message
    results,          \* Workspace: null, or the response shown
    lendingPositionHealth, \* Workspace: object key (id as string) -> health
    sent,             \* requests posted and not yet answered
    sessionCheck,     \* checkSession: "pending" (getMe awaited), "done";
                      \*   "overtaken": awaited, and a logout has completed
    logins            \* handleLogin calls awaiting nonce, signature or
                      \*   verification: how many began after the last
                      \*   logout (fresh), how many before it (overtaken)

vars == <<currentView, portfolio, strategies, modules, isAuthenticated,
          isConnected, modalState, loading, error, results,
          lendingPositionHealth, sent, sessionCheck, logins>>

appVars == <<currentView, portfolio, strategies, modules>>

authVars == <<isAuthenticated, isConnected, modalState, sessionCheck, logins>>

runVars == <<loading, error, results, lendingPositionHealth, sent>>

\* config: {} of a strategy just added (App.handleAddStrategy).
EmptyConfig == [f \in {} |-> <<>>]

ClDefaults ==
    [dex |-> "pancakeswap", amountBNB |-> <<>>, amountUSDC |-> <<>>,
     minPrice |-> <<>>, maxPrice |-> <<>>, autoRebalance |-> FALSE]

LendingDefaults ==
    [protocol |-> "venus", borrowAsset |-> "none", borrowAmount |-> <<>>]

PerpsDefaults ==
    [exchange |-> "Aster", pair |-> "BNB/USDC", leverage |-> 1,
     direction |-> "long"]

ModuleDefaults(type) ==
    CASE type = "lending" -> LendingDefaults
      [] type = "perps"   -> PerpsDefaults
      [] type = "cl"      -> ClDefaults

----------------------------------------------------------------------------
(* Sequential allocation *)

\* seqRemaining's loop with the percentage branch lost: an allocation does
\* not deplete the pool.
SeqRemainingStepNoDeplete(rem, asset, s) ==
    IF s.type = "cl"
    THEN LET amt == IF asset = "BNB" THEN Amount(s.config, "amountBNB")
                    ELSE Amount(s.config, "amountUSDC")
         IN  Max(0, rem - amt)
    ELSE rem

\* One iteration of seqRemaining's loop.
SeqRemainingStep(rem, asset, s) ==
    IF s.type = "cl"
    THEN LET amt == IF asset = "BNB" THEN Amount(s.config, "amountBNB")
                    ELSE Amount(s.config, "amountUSDC")
         IN  Max(0, rem - amt)
    ELSE IF s.asset = asset
         THEN (rem * (100 - s.allocation)) \div 100
         ELSE rem

RECURSIVE SeqRemainingLoop(_, _, _, _)
SeqRemainingLoop(rem, asset, strats, i) ==
    IF i > Len(strats) THEN rem
    ELSE SeqRemainingLoop(SeqRemainingStep(rem, asset, strats[i]),
                          asset, strats, i + 1)

seqRemaining(total, asset, strats) ==
    Max(0, SeqRemainingLoop(total, asset, strats, 1))

\* The strategies whose borrow is aggregated: every lending strategy of the
\* list it is given with a borrow asset other than 'none'.
Borrows(s) ==
    /\ s.type = "lending"
    /\ "borrowAsset" \in DOMAIN s.config
    /\ s.config.borrowAsset # "none"

RECURSIVE BorrowedLoop(_, _, _)
BorrowedLoop(strats, asset, i) ==
    IF i > Len(strats) THEN 0
    ELSE (IF Borrows(strats[i]) /\ strats[i].config.borrowAsset = asset
          THEN Amount(strats[i].config, "borrowAmount") ELSE 0)
         + BorrowedLoop(strats, asset, i + 1)

\* borrowedByAsset[asset] || 0
borrowedByAsset(strats, asset) == BorrowedLoop(strats, asset, 1)

\* portfolio.find(a => a.asset === asset)?.balance
RECURSIVE FindBalance(_, _, _)
FindBalance(pf, asset, i) ==
    IF i > Len(pf) THEN Undefined
    ELSE IF pf[i].asset = asset THEN pf[i].balance
    ELSE FindBalance(pf, asset, i + 1)

BaseBalance(pf, asset) == OrElse(ParseFloat(FindBalance(pf, asset, 1)), 0)

effectiveBalances(pf, strats, asset) ==
    BaseBalance(pf, asset) + borrowedByAsset(strats, asset)

Prior(strats, i) == SubSeq(strats, 1, i - 1)

\* The row of `asset` in the RemainingPanel at the right of the card at
\* position i: the panel is given the strategies up to and including i and
\* the amounts borrowed by those; an asset with neither a balance nor a
\* borrow has no row.
RemainingPanel(pf, strats, i, asset) ==
    LET strategiesUpTo == SubSeq(strats, 1, i)
        base     == BaseBalance(pf, asset)
        borrowed == borrowedByAsset(strategiesUpTo, asset)
        total    == base + borrowed
    IN  IF base = 0 /\ borrowed = 0 THEN [shown |-> FALSE]
        ELSE [shown |-> TRUE,
              remainingAmt |-> seqRemaining(total, asset, strategiesUpTo)]

----------------------------------------------------------------------------
(* Run blockers (computed on every render of the workspace) *)

\* The CL blockers without the two single "set ... price" checks.
ClBlockersNoRequired(s, i) ==
    LET bnbAmt  == Amount(s.config, "amountBNB")
        usdcAmt == Amount(s.config, "amountUSDC")
        minRequired == usdcAmt > 0
        maxRequired == bnbAmt > 0
        minVal == Amount(s.config, "minPrice")
        maxVal == Amount(s.config, "maxPrice")
        minPresent == minVal > 0
        maxPresent == maxVal > 0
        B(k) == <<[strategy |-> i, what |-> k]>>
    IN  IF bnbAmt = 0 /\ usdcAmt = 0 THEN B("enter at least one amount")
        ELSE IF ~minPresent /\ ~maxPresent /\ minRequired /\ maxRequired
        THEN B("set min & max price")
        ELSE (IF minPresent /\ minVal >= CURRENT_PRICE
              THEN B("min price must be below") ELSE <<>>)
          \o (IF maxPresent /\ maxVal <= CURRENT_PRICE
              THEN B("max price must be above") ELSE <<>>)

\* The CL blockers with a bound equal to the entry price let through.
ClBlockersEntryAllowed(s, i) ==
    LET bnbAmt  == Amount(s.config, "amountBNB")
        usdcAmt == Amount(s.config, "amountUSDC")
        minRequired == usdcAmt > 0
        maxRequired == bnbAmt > 0
        minVal == Amount(s.config, "minPrice")
        maxVal == Amount(s.config, "maxPrice")
        minPresent == minVal > 0
        maxPresent == maxVal > 0
        B(k) == <<[strategy |-> i, what |-> k]>>
    IN  IF bnbAmt = 0 /\ usdcAmt = 0 THEN B("enter at least one amount")
        ELSE IF ~minPresent /\ ~maxPresent /\ minRequired /\ maxRequired
        THEN B("set min & max price")
        ELSE (IF minRequired /\ ~minPresent THEN B("set min price") ELSE <<>>)
          \o (IF maxRequired /\ ~maxPresent THEN B("set max price") ELSE <<>>)
          \o (IF minPresent /\ minVal > CURRENT_PRICE
              THEN B("min price must be below") ELSE <<>>)
          \o (IF maxPresent /\ maxVal < CURRENT_PRICE
              THEN B("max price must be above") ELSE <<>>)

ClBlockers(s, i) ==
    LET bnbAmt  == Amount(s.config, "amountBNB")
        usdcAmt == Amount(s.config, "amountUSDC")
        minRequired == usdcAmt > 0
        maxRequired == bnbAmt > 0
        minVal == Amount(s.config, "minPrice")
        maxVal == Amount(s.config, "maxPrice")
        minPresent == minVal > 0
        maxPresent == maxVal > 0
        B(k) == <<[strategy |-> i, what |-> k]>>
    IN  IF bnbAmt = 0 /\ usdcAmt = 0 THEN B("enter at least one amount")
        ELSE IF ~minPresent /\ ~maxPresent /\ minRequired /\ maxRequired
        THEN B("set min & max price")
        ELSE (IF minRequired /\ ~minPresent THEN B("set min price") ELSE <<>>)
          \o (IF maxRequired /\ ~maxPresent THEN B("set max price") ELSE <<>>)
          \o (IF minPresent /\ minVal >= CURRENT_PRICE
              THEN B("min price must be below") ELSE <<>>)
          \o (IF maxPresent /\ maxVal <= CURRENT_PRICE
              THEN B("max price must be above") ELSE <<>>)

StrategyBlockers(pf, strats, i) ==
    LET s      == strats[i]
        asset  == IF s.type = "perps" THEN "USDC" ELSE s.asset
        effBal == seqRemaining(effectiveBalances(pf, strats, asset), asset,
                               Prior(strats, i))
    IN  IF s.type = "cl" THEN ClBlockers(s, i)
        ELSE IF effBal = 0
        THEN <<[strategy |-> i, what |-> "no asset available"]>>
        ELSE <<>>

RECURSIVE BlockersLoop(_, _, _)
BlockersLoop(pf, strats, i) ==
    IF i > Len(strats) THEN <<>>
    ELSE StrategyBlockers(pf, strats, i) \o BlockersLoop(pf, strats, i + 1)

runBlockers(pf, strats) == BlockersLoop(pf, strats, 1)

\* useState(null) for results; a response is an object (single endpoints)
\* or an array (batch endpoint).
Null == [kind |-> "null"]

hasLiquidatableLending ==
    \E id \in DOMAIN lendingPositionHealth : lendingPositionHealth[id] = 0

\* The Run button's guard without the run blockers.
isBlockedIgnoringBlockers ==
    \/ Len(portfolio) = 0
    \/ loading
    \/ hasLiquidatableLending

isBlocked ==
    \/ Len(portfolio) = 0
    \/ loading
    \/ hasLiquidatableLending
    \/ Len(runBlockers(portfolio, strategies)) > 0

\* The workspace (cards, panels, Add Strategy, Run Backtest) is what is
\* rendered: not the results, not the "Ready to Start" screen.
WorkspaceShown == results = Null /\ currentView # "empty"

RunButtonEnabled == WorkspaceShown /\ Len(strategies) > 0 /\ ~isBlocked

----------------------------------------------------------------------------
(* The request built by handleRunBacktest *)

strategyEffectiveBalance(pf, strats, i) ==
    seqRemaining(effectiveBalances(pf, strats, strats[i].asset),
                 strats[i].asset, Prior(strats, i))

strategyInvestedAmt(pf, strats, i) ==
    (strategyEffectiveBalance(pf, strats, i) * strats[i].allocation) \div 100

\* The leverage read without the `|| 1` fallback.
LeverageParamNoFallback(c) ==
    IF "leverage" \in DOMAIN c THEN c.leverage ELSE 0

\* parseFloat(strategy.config.leverage) || 1
LeverageParam(c) ==
    IF "leverage" \in DOMAIN c /\ c.leverage # 0 THEN c.leverage ELSE 1

RequestItem(pf, strats, i) ==
    LET s == strats[i]
    IN  CASE s.type = "lending" ->
               [type |-> "lending",
                params |-> [supply_amount |-> strategyInvestedAmt(pf, strats, i),
                            borrow_amount |-> Amount(s.config, "borrowAmount"),
                            is_bnb_supply |-> s.asset = "BNB"]]
          [] s.type = "perps" ->
               [type |-> "perp",
                params |-> [initial_collateral |-> strategyInvestedAmt(pf, strats, i),
                            leverage |-> LeverageParam(s.config),
                            is_long |-> "direction" \in DOMAIN s.config
                                        /\ s.config.direction = "long"]]
          [] s.type = "cl" ->
               [type |-> "clmm",
                params |-> [initial_token0 |-> Amount(s.config, "amountBNB"),
                            initial_token1 |-> Amount(s.config, "amountUSDC"),
                            min_price |-> Amount(s.config, "minPrice"),
                            max_price |-> Amount(s.config, "maxPrice")]]

\* The items in the opposite order of the strategy list.
requestItemsReversed(pf, strats) ==
    [i \in 1..Len(strats) |-> RequestItem(pf, strats, Len(strats) + 1 - i)]

requestItems(pf, strats) ==
    [i \in 1..Len(strats) |-> RequestItem(pf, strats, i)]

Endpoint(items) ==
    IF Len(items) = 1
    THEN CASE items[1].type = "lending" -> "/backtest/lending"
           [] items[1].type = "perp"    -> "/backtest/perp"
           [] items[1].type = "clmm"    -> "/backtest/clmm"
    ELSE "/backtest/batch"

\* What is posted: one item's params to its own endpoint, or {items} to the
\* batch endpoint.
Request(pf, strats) ==
    LET items == requestItems(pf, strats)
    IN  [endpoint |-> Endpoint(items), items |-> items]

----------------------------------------------------------------------------
(* App handlers and the module components they are called from.  A card    *)
(* is addressed by its position in the list where the code uses its id     *)
(* (ids are unique and never reused); `locked`, which only disables a      *)
(* card's inputs, is not modelled.                                         *)

RemoveAt(seq, i) == SubSeq(seq, 1, i - 1) \o SubSeq(seq, i + 1, Len(seq))

----------------------------------------------------------------------------
(* Strategy ids and the position-health map.  genId hands out increasing   *)
(* numbers and the list only appends and filters, so the ids of the list   *)
(* are increasing along it; the model names a strategy by its rank in the  *)
(* list and renames the keys of the map when a removal shifts the ranks.   *)
(* A JS value carries its type: an id is a number, an object key a string. *)

\* strategy.id, a number from genId
NumberId(i) == [t |-> "number", v |-> i]

\* The property key an id becomes in next[id] and in Object.keys(next).
KeyOf(id) == [t |-> "string", v |-> id.v]

\* new Set(strategies.map(s => s.id)) for the strategies ranked in `ranks`
IdSet(ranks) == {NumberId(i) : i \in ranks}

\* Set.prototype.has: same type and same value
SetHas(set, x) == x \in set

\* The cleanup effect: delete next[id] for every key with !ids.has(id).
cleanupHealth(prev, ids) ==
    [k \in {key \in DOMAIN prev : SetHas(ids, key)} |-> prev[k]]

\* The keys renamed after the strategy of rank i has left the list.
Rekey(map, i) ==
    LET Old(k) == IF k.v >= i THEN [k EXCEPT !.v = k.v + 1] ELSE k
        keys == {[t |-> k.t, v |-> IF k.v > i THEN k.v - 1 ELSE k.v] :
                    k \in {key \in DOMAIN map : key.v # i}}
    IN  [k \in keys |-> map[Old(k)]]

\* onPositionHealthChange(id, health): next[id] = health, or delete
\* next[id] when health is null.
onPositionHealthChange(prev, id, health, isNull) ==
    LET key == KeyOf(id)
    IN  IF isNull
        THEN [k \in DOMAIN prev \ {key} |-> prev[k]]
        ELSE [k \in DOMAIN prev \cup {key} |->
                IF k = key THEN health ELSE prev[k]]

\* A lending card reports the health of its position (0: liquidatable) or
\* withdraws its report.
ReportHealth(i, health, isNull) ==
    /\ WorkspaceShown
    /\ i \in 1..Len(strategies)
    /\ strategies[i].type = "lending"
    /\ lendingPositionHealth' =
          onPositionHealthChange(lendingPositionHealth, NumberId(i),
                                 health, isNull)
    /\ UNCHANGED <<appVars, authVars, loading, error, results, sent>>

\* Sidebar "New Backtest".
handleNewBacktest ==
    /\ currentView' = "newBacktest"
    /\ portfolio' = <<>>
    /\ strategies' = <<>>
    /\ modules' = <<>>
    /\ lendingPositionHealth' =
          IF strategies = <<>> THEN lendingPositionHealth
          ELSE cleanupHealth(lendingPositionHealth, IdSet({}))
    /\ UNCHANGED <<authVars, loading, error, results, sent>>

usedAssets == {portfolio[k].asset : k \in 1..Len(portfolio)}

handleAddAsset(asset) ==
    /\ WorkspaceShown
    /\ asset \notin usedAssets
    /\ portfolio' = Append(portfolio, [asset |-> asset, balance |-> <<>>])
    /\ UNCHANGED <<currentView, strategies, modules, authVars, runVars>>

handleRemoveAsset(k) ==
    /\ WorkspaceShown
    /\ k \in 1..Len(portfolio)
    /\ portfolio' = RemoveAt(portfolio, k)
    /\ UNCHANGED <<currentView, strategies, modules, authVars, runVars>>

handleAssetBalanceChange(k, text) ==
    /\ WorkspaceShown
    /\ k \in 1..Len(portfolio)
    /\ portfolio' = [portfolio EXCEPT ![k].balance = text]
    /\ UNCHANGED <<currentView, strategies, modules, authVars, runVars>>

\* Remaining after ALL strategies: disables the "Add Strategy" options.
addable(asset) ==
    seqRemaining(effectiveBalances(portfolio, strategies, asset), asset,
                 strategies)

AddOptionDisabled(type) ==
    IF type = "perps" THEN addable("USDC") = 0
    ELSE addable("BNB") = 0 /\ addable("USDC") = 0

NewStrategy(type) ==
    [type |-> type, allocation |-> 0, asset |-> "BNB", config |-> EmptyConfig]

\* A card render that leaves the strategy's asset as it was created.
StrategyCardRenderNoAssign(s) == s

\* StrategyCard assigns strategy.asset = 'USDC' to a perps strategy when the
\* card renders, on the object held in App's state.
StrategyCardRender(s) ==
    IF s.type = "perps" THEN [s EXCEPT !.asset = "USDC"] ELSE s

handleAddStrategy(type) ==
    /\ WorkspaceShown
    /\ ~AddOptionDisabled(type)
    /\ strategies' = Append(strategies, StrategyCardRender(NewStrategy(type)))
    /\ modules' = Append(modules, ModuleDefaults(type))
    /\ lendingPositionHealth' =
          cleanupHealth(lendingPositionHealth,
                        IdSet(1..(Len(strategies) + 1)))
    /\ UNCHANGED <<currentView, portfolio, authVars, loading, error, results,
                   sent>>

handleRemoveStrategy(i) ==
    /\ WorkspaceShown
    /\ i \in 1..Len(strategies)
    /\ strategies' = RemoveAt(strategies, i)
    /\ modules' = RemoveAt(modules, i)
    /\ lendingPositionHealth' =
          Rekey(cleanupHealth(lendingPositionHealth,
                              IdSet((1..Len(strategies)) \ {i})), i)
    /\ UNCHANGED <<currentView, portfolio, authVars, loading, error, results,
                   sent>>

\* The allocation slider is rendered for lending and perps cards.
handleAllocationChange(i, value) ==
    /\ WorkspaceShown
    /\ i \in 1..Len(strategies)
    /\ strategies[i].type # "cl"
    /\ LET clamped == Max(0, Min(value, 100))
       IN  strategies' = [strategies EXCEPT ![i].allocation = clamped]
    /\ UNCHANGED <<currentView, portfolio, modules, authVars, runVars>>

WithSupplyAsset(c, supplyAsset) ==
    [f \in DOMAIN c \cup {"supplyAsset"} |->
        IF f = "supplyAsset" THEN supplyAsset ELSE c[f]]

\* The asset selector is rendered for lending cards; when the supply asset
\* changes, LendingModule's effect wipes the borrow state and reports it.
handleStrategyAssetChange(i, asset) ==
    /\ WorkspaceShown
    /\ i \in 1..Len(strategies)
    /\ strategies[i].type = "lending"
    /\ IF asset = strategies[i].asset
       THEN UNCHANGED <<strategies, modules>>
       ELSE /\ modules' = [modules EXCEPT ![i] = LendingDefaults]
            /\ strategies' =
                 [strategies EXCEPT
                    ![i].asset = asset,
                    ![i].config = WithSupplyAsset(LendingDefaults, asset)]
    /\ UNCHANGED <<currentView, portfolio, authVars, runVars>>

borrowOptions(supplyAsset) ==
    {opt \in {"none", "BNB", "USDC"} : opt = "none" \/ opt # supplyAsset}

\* LendingModule.handleChange; the amount input exists while a borrow asset
\* is selected.
LendingHandleChange(i, field, value) ==
    /\ WorkspaceShown
    /\ i \in 1..Len(strategies)
    /\ strategies[i].type = "lending"
    /\ \/ field = "borrowAsset" /\ value \in borrowOptions(strategies[i].asset)
       \/ field = "borrowAmount" /\ modules[i].borrowAsset # "none"
    /\ LET newConfig == [modules[i] EXCEPT ![field] = value]
       IN  /\ modules' = [modules EXCEPT ![i] = newConfig]
           /\ strategies' =
                [strategies EXCEPT
                   ![i].config = WithSupplyAsset(newConfig, strategies[i].asset)]
    /\ UNCHANGED <<currentView, portfolio, authVars, runVars>>

\* PerpsModule.handleChange: the direction buttons and the leverage slider.
PerpsHandleChange(i, field, value) ==
    /\ WorkspaceShown
    /\ i \in 1..Len(strategies)
    /\ strategies[i].type = "perps"
    /\ \/ field = "direction" /\ value \in {"long", "short"}
       \/ field = "leverage" /\ value \in 1..20
    /\ LET newConfig == [modules[i] EXCEPT ![field] = value]
       IN  /\ modules' = [modules EXCEPT ![i] = newConfig]
           /\ strategies' = [strategies EXCEPT ![i].config = newConfig]
    /\ UNCHANGED <<currentView, portfolio, authVars, runVars>>

ClFields == {"amountBNB", "amountUSDC", "minPrice", "maxPrice"}

\* ConcentratedLiquidityModule.handleChange: the four number inputs.
ClHandleChange(i, field, text) ==
    /\ WorkspaceShown
    /\ i \in 1..Len(strategies)
    /\ strategies[i].type = "cl"
    /\ field \in ClFields
    /\ LET newConfig == [modules[i] EXCEPT ![field] = text]
       IN  /\ modules' = [modules EXCEPT ![i] = newConfig]
           /\ strategies' = [strategies EXCEPT ![i].config = newConfig]
    /\ UNCHANGED <<currentView, portfolio, authVars, runVars>>

----------------------------------------------------------------------------
(* The results view: BacktestResults merges what the server answered.      *)
(* The simulators are not part of this source; an answer is one result per *)
(* request item, {steps, summary}, with the step fields of its type.       *)
(* Amounts in an answer are whole dollars (whole tokens).                  *)

\* price_bnb in the lending branch of chartData
PRICE_BNB == 300

\* data = isBatch ? results : [results]
data(res) == IF res.kind = "array" THEN res.value ELSE <<res.value>>

RECURSIVE SumFrom(_, _)
\* data.forEach / reduce accumulating the numbers of seq from index i on
SumFrom(seq, i) ==
    IF i > Len(seq) THEN 0 ELSE seq[i] + SumFrom(seq, i + 1)

\* The accumulated total of one number per result.
SumOver(seq) == SumFrom(seq, 1)

\* The mean of the per-strategy roi_percentage in place of the combined one.
aggregateStatsAveraged(d) ==
    LET Initial(r) == r.summary.final_equity_usd - r.summary.final_pnl_usd
        Final(r)   == r.summary.final_equity_usd
        PnL(r)     == r.summary.final_pnl_usd
        Roi(r)     == r.summary.roi_percentage
        Apy(r)     == r.summary.apy_percentage
    IN  [initial |-> SumOver([k \in 1..Len(d) |-> Initial(d[k])]),
         final   |-> SumOver([k \in 1..Len(d) |-> Final(d[k])]),
         pnl     |-> SumOver([k \in 1..Len(d) |-> PnL(d[k])]),
         roi     |-> [num |-> SumOver([k \in 1..Len(d) |-> Roi(d[k])]), den |-> Len(d)],
         apy     |-> [num |-> SumOver([k \in 1..Len(d) |-> Apy(d[k])]), den |-> Len(d)]]

\* aggregateStats; roi and apy are quotients, kept as num/den.
aggregateStats(d) ==
    LET Initial(r) == r.summary.final_equity_usd - r.summary.final_pnl_usd
        Final(r)   == r.summary.final_equity_usd
        PnL(r)     == r.summary.final_pnl_usd
        Apy(r)     == r.summary.apy_percentage
        totalInitial == SumOver([k \in 1..Len(d) |-> Initial(d[k])])
        totalFinal   == SumOver([k \in 1..Len(d) |-> Final(d[k])])
        totalPnL     == SumOver([k \in 1..Len(d) |-> PnL(d[k])])
    IN  [initial |-> totalInitial,
         final   |-> totalFinal,
         pnl     |-> totalPnL,
         roi     |-> IF totalInitial > 0
                     THEN [num |-> totalPnL * 100, den |-> totalInitial]
                     ELSE [num |-> 0, den |-> 1],
         apy     |-> [num |-> SumOver([k \in 1..Len(d) |-> Apy(d[k])]), den |-> Len(d)]]

\* Math.max(...data.map(d => d.steps.length))
RECURSIVE MaxStepsLoop(_, _)
MaxStepsLoop(d, i) ==
    IF i > Len(d) THEN 0
    ELSE Max(Len(d[i].steps), MaxStepsLoop(d, i + 1))

maxSteps(d) == MaxStepsLoop(d, 1)

\* A strategy's sequence gives up its first step once it has ended.
StepAtFirstHeld(r, i) ==
    IF i <= Len(r.steps) THEN r.steps[i] ELSE r.steps[1]

\* res.steps[i] || res.steps[res.steps.length - 1]   (i counts from 1 here)
StepAt(r, i) ==
    IF i <= Len(r.steps) THEN r.steps[i] ELSE r.steps[Len(r.steps)]

\* The equity read off one step, by the fields it has.
StepEquity(step) ==
    IF "equity" \in DOMAIN step THEN step.equity
    ELSE IF "position_value_usd" \in DOMAIN step
    THEN step.position_value_usd
           + (IF "fees_usd_cumulative" \in DOMAIN step
              THEN step.fees_usd_cumulative ELSE 0)
    ELSE IF "supply_bnb" \in DOMAIN step
    THEN step.supply_bnb * PRICE_BNB - step.borrow_usdc
    ELSE IF "supply_usdc" \in DOMAIN step
    THEN step.supply_usdc - step.borrow_bnb * PRICE_BNB
    ELSE 0

\* One point of the merged curve: strategy[idx] is point[`strategy_${idx}`].
ChartPoint(d, i) ==
    LET Equity(r) == StepEquity(StepAt(r, i))
    IN  [step     |-> i - 1,
         strategy |-> [idx \in 1..Len(d) |-> Equity(d[idx])],
         total    |-> SumOver([k \in 1..Len(d) |-> Equity(d[k])])]

chartData(d) == [i \in 1..maxSteps(d) |-> ChartPoint(d, i)]

\* What the server may answer.  A sequence has at least its entry step and
\* at most MaxSteps steps (a liquidation ends it early).
MaxSteps == 3

Trends == {"gain", "loss", "idle"}

\* Equity in USD at step k (from 0) along a trend.
TrendValue(trend, k) ==
    CASE trend = "gain" -> 100 + 25 * k
      [] trend = "loss" -> 50 - 10 * k
      [] trend = "idle" -> 0

TrendSummary(trend) ==
    CASE trend = "gain" ->
           [final_equity_usd |-> 150, final_pnl_usd |-> 50,
            roi_percentage |-> 50, apy_percentage |-> 60]
      [] trend = "loss" ->
           [final_equity_usd |-> 25, final_pnl_usd |-> 0 - 25,
            roi_percentage |-> 0 - 50, apy_percentage |-> 0 - 60]
      [] trend = "idle" ->
           [final_equity_usd |-> 0, final_pnl_usd |-> 0,
            roi_percentage |-> 0, apy_percentage |-> 0]

\* HistoricalSample.price: the BNB price of the dataset's sample at step k
\* (from 0); the recorded series moves from step to step.
SamplePrice(k) == 280 + 20 * k

\* A step of the shape the item's simulator reports, worth v at step k.
StepOf(item, v, k) ==
    CASE item.type = "perp" -> [equity |-> v]
      [] item.type = "clmm" ->
           IF k = 0 THEN [hold_value_usd |-> v, position_value_usd |-> v]
           ELSE [hold_value_usd |-> v, position_value_usd |-> v - k,
                 fees_usd_cumulative |-> k]
      [] item.type = "lending" ->
           IF item.params.is_bnb_supply
           THEN [supply_bnb |-> 1,
                 borrow_usdc |-> PRICE_BNB - v]
           ELSE [supply_usdc |-> v, borrow_bnb |-> 0]

ResultOf(item, trend, len) ==
    [steps   |-> [i \in 1..len |-> StepOf(item, TrendValue(trend, i - 1), i - 1)],
     summary |-> TrendSummary(trend)]

ResultsOf(item) ==
    {ResultOf(item, trend, len) : trend \in Trends, len \in 1..MaxSteps}

RECURSIVE AnswerLists(_, _)
AnswerLists(items, i) ==
    IF i > Len(items) THEN {<<>>}
    ELSE {<<r>> \o rest : r \in ResultsOf(items[i]),
                          rest \in AnswerLists(items, i + 1)}

\* The batch endpoint answers an array, the others one object.
Answers(req) ==
    IF req.endpoint = "/backtest/batch"
    THEN {[kind |-> "array", value |-> l] : l \in AnswerLists(req.items, 1)}
    ELSE {[kind |-> "object", value |-> r] : r \in ResultsOf(req.items[1])}

\* The answer in which every strategy ran its full length at a gain.
PlainAnswer(req) ==
    LET l == [i \in 1..Len(req.items) |->
                ResultOf(req.items[i], "gain", MaxSteps)]
    IN  IF req.endpoint = "/backtest/batch"
        THEN [kind |-> "array", value |-> l]
        ELSE [kind |-> "object", value |-> l[1]]

----------------------------------------------------------------------------
(* Run Backtest, the answer, and the way back from the results *)

\* Run Backtest with requireAuth taken away: the request is built and
\* posted whoever clicks.
handleRunBacktestUnguarded ==
    /\ RunButtonEnabled
    /\ loading' = TRUE
    /\ error' = "null"
    /\ sent' = Append(sent, Request(portfolio, strategies))
    /\ UNCHANGED <<appVars, authVars, results, lendingPositionHealth>>

\* The Run Backtest button: requireAuth, then the request is built and
\* posted; an unauthenticated click only opens the auth modal.
handleRunBacktest ==
    /\ RunButtonEnabled
    /\ IF isAuthenticated
       THEN /\ loading' = TRUE
            /\ error' = "null"
            /\ sent' = Append(sent, Request(portfolio, strategies))
            /\ UNCHANGED <<modalState, results>>
       ELSE /\ modalState' = IF ~isConnected THEN "connect" ELSE "sign"
            /\ UNCHANGED <<loading, error, sent, results>>
    /\ UNCHANGED <<appVars, isAuthenticated, isConnected, sessionCheck,
                   logins, lendingPositionHealth>>

\* The awaited post resolves: setResults(res), then setLoading(false).
RespondOk(res) ==
    /\ sent # <<>>
    /\ results' = res
    /\ loading' = FALSE
    /\ sent' = Tail(sent)
    /\ UNCHANGED <<appVars, authVars, error, lendingPositionHealth>>

\* The awaited post rejects: setError(message), then setLoading(false).
RespondError ==
    /\ sent # <<>>
    /\ error' = "Failed to run backtest"
    /\ loading' = FALSE
    /\ sent' = Tail(sent)
    /\ UNCHANGED <<appVars, authVars, results, lendingPositionHealth>>

\* BacktestResults.onBack: setResults(null); the cards mount again, each
\* module with its initial state.
onBack ==
    /\ results # Null
    /\ results' = Null
    /\ modules' = [i \in 1..Len(strategies) |->
                      ModuleDefaults(strategies[i].type)]
    /\ UNCHANGED <<currentView, portfolio, strategies, authVars, loading,
                   error, lendingPositionHealth, sent>>

----------------------------------------------------------------------------
(* AuthProvider: wallet connection, sign-in, sign-out *)

\* At most MaxLogins calls of handleLogin await at once.
MaxLogins == 2

NoLogins == [fresh |-> 0, overtaken |-> 0]

LoginsInFlight == logins.fresh + logins.overtaken

\* The in-flight calls one of which has just settled.
Settled(l) ==
    {[l EXCEPT ![k] = l[k] - 1] : k \in {k \in {"fresh", "overtaken"} : l[k] > 0}}

\* wagmi reports a connected wallet; the effect moves an open 'connect'
\* modal on to 'sign'.
WalletConnects ==
    /\ ~isConnected
    /\ isConnected' = TRUE
    /\ modalState' = IF modalState = "connect" THEN "sign" ELSE modalState
    /\ UNCHANGED <<appVars, isAuthenticated, sessionCheck, logins, runVars>>

\* handleLogin up to its first await: the modal's Sign button, or the
\* wallet button's Sign In (shown while connected and not authenticated).
handleLogin ==
    /\ ~isAuthenticated
    /\ modalState \in {"null", "sign"}
    /\ IF ~isConnected
       THEN modalState' = "connect" /\ UNCHANGED logins
       ELSE /\ LoginsInFlight < MaxLogins
            /\ modalState' = "loading"
            /\ logins' = [logins EXCEPT !.fresh = @ + 1]
    /\ UNCHANGED <<appVars, isAuthenticated, isConnected, sessionCheck,
                   runVars>>

\* The signature is verified and the answer carries the address:
\* setModalState('success'), setIsAuthenticated(true).
LoginVerified ==
    /\ logins' \in Settled(logins)
    /\ modalState' = "success"
    /\ isAuthenticated' = TRUE
    /\ UNCHANGED <<appVars, isConnected, sessionCheck, runVars>>

\* verifySignature resolves with no address: the `if (verifiedAddress)`
\* is skipped and the call ends without setting anything.
LoginUnverified ==
    /\ logins' \in Settled(logins)
    /\ UNCHANGED <<appVars, isAuthenticated, isConnected, modalState,
                   sessionCheck, runVars>>

\* The nonce, the signature or the verification fails: back to 'sign'.
LoginFailed ==
    /\ logins' \in Settled(logins)
    /\ modalState' = "sign"
    /\ UNCHANGED <<appVars, isAuthenticated, isConnected, sessionCheck,
                   runVars>>

\* The timer set on success closes the modal.
ModalCloses ==
    /\ modalState = "success"
    /\ modalState' = "null"
    /\ UNCHANGED <<appVars, isAuthenticated, isConnected, sessionCheck,
                   logins, runVars>>

\* handleLogout (the wallet button, or the effect when an authenticated
\* user's wallet disconnects): the wallet is disconnected and the session
\* state cleared.  The calls still awaiting have been overtaken by it.
handleLogout ==
    /\ isConnected \/ isAuthenticated
    /\ isAuthenticated' = FALSE
    /\ isConnected' = FALSE
    /\ modalState' = "null"
    /\ sessionCheck' = IF sessionCheck = "done" THEN "done" ELSE "overtaken"
    /\ logins' = [fresh |-> 0, overtaken |-> LoginsInFlight]
    /\ UNCHANGED <<appVars, runVars>>

\* checkSession after `await getMe()`: an answer with an address
\* authenticates, an answer without one sets nothing, a rejection clears.
checkSessionAnswers(outcome) ==
    /\ sessionCheck # "done"
    /\ sessionCheck' = "done"
    /\ isAuthenticated' =
         CASE outcome = "address"   -> TRUE
           [] outcome = "noAddress" -> isAuthenticated
           [] outcome = "rejected"  -> FALSE
    /\ UNCHANGED <<appVars, isConnected, modalState, logins, runVars>>

----------------------------------------------------------------------------
(* Texts a user types into the number inputs *)

TEmpty == <<>>
T50 == <<"5", "0">>
T100 == <<"1", "0", "0">>
T150 == <<"1", "5", "0">>
TNeg50 == <<"-", "5", "0">>
T300 == <<"3", "0", "0">>
T400 == <<"4", "0", "0">>
TEntry == <<"3", "1", "1", ".", "3", "3">>

\* The state after the app has mounted and the session check has answered.
InitWith(authenticated) ==
    /\ currentView = "empty"
    /\ portfolio = <<>>
    /\ strategies = <<>>
    /\ modules = <<>>
    /\ isAuthenticated = authenticated
    /\ isConnected = authenticated
    /\ modalState = "null"
    /\ loading = FALSE
    /\ error = "null"
    /\ results = Null
    /\ lendingPositionHealth = [id \in {} |-> 0]
    /\ sent = <<>>
    /\ sessionCheck = "done"
    /\ logins = NoLogins

----------------------------------------------------------------------------
(* Scenario: percentage strategies over a shared pool.  The user sets up   *)
(* BNB and USDC balances, adds up to MaxStrategies cards, moves the        *)
(* allocation sliders, picks the lending asset, types a BNB amount into a  *)
(* CL card, and runs; the user waits for the answer before editing on.     *)

MaxStrategies == 2

AllocInputs == {-10, 50, 150}

NextAlloc ==
    \/ handleNewBacktest
    \/ ~loading /\ \E a \in Assets : handleAddAsset(a)
    \/ ~loading /\ \E k \in 1..Len(portfolio) : handleRemoveAsset(k)
    \/ ~loading /\ \E k \in 1..Len(portfolio) :
                      handleAssetBalanceChange(k, T100)
    \/ ~loading /\ Len(strategies) < MaxStrategies
               /\ \E t \in {"lending", "perps", "cl"} : handleAddStrategy(t)
    \/ ~loading /\ \E i \in 1..Len(strategies) : handleRemoveStrategy(i)
    \/ ~loading /\ \E i \in 1..Len(strategies), v \in AllocInputs :
                      handleAllocationChange(i, v)
    \/ ~loading /\ \E i \in 1..Len(strategies), a \in Assets :
                      handleStrategyAssetChange(i, a)
    \/ ~loading /\ \E i \in 1..Len(strategies), t \in {T50, TNeg50} :
                      ClHandleChange(i, "amountBNB", t)
    \/ handleRunBacktest
    \/ sent # <<>> /\ RespondOk(PlainAnswer(sent[1]))
    \/ RespondError
    \/ onBack

Init == InitWith(TRUE)

Spec == Init /\ [][NextAlloc]_vars

----------------------------------------------------------------------------
(* Scenario: one concentrated-liquidity card validated against the entry   *)
(* price.  The user types amounts and price bounds, among them a negative  *)
(* amount, a bound equal to the entry price and a negative upper bound;    *)
(* a perps card gives a second kind of blocker.                            *)

MaxCards == 1

NextValid ==
    \/ handleNewBacktest
    \/ ~loading /\ \E a \in Assets : handleAddAsset(a)
    \/ ~loading /\ \E k \in 1..Len(portfolio) : handleRemoveAsset(k)
    \/ ~loading /\ \E k \in 1..Len(portfolio) :
                      handleAssetBalanceChange(k, T100)
    \/ ~loading /\ Len(strategies) < MaxCards
               /\ \E t \in {"cl", "perps"} : handleAddStrategy(t)
    \/ ~loading /\ \E i \in 1..Len(strategies) : handleRemoveStrategy(i)
    \/ ~loading /\ \E i \in 1..Len(strategies) : handleAllocationChange(i, 50)
    \/ ~loading /\ \E i \in 1..Len(strategies), t \in {T50, TNeg50} :
                      ClHandleChange(i, "amountBNB", t)
    \/ ~loading /\ \E i \in 1..Len(strategies) :
                      ClHandleChange(i, "amountUSDC", T50)
    \/ ~loading /\ \E i \in 1..Len(strategies), t \in {T300, TEntry} :
                      ClHandleChange(i, "minPrice", t)
    \/ ~loading /\ \E i \in 1..Len(strategies), t \in {T400, TEntry, TNeg50} :
                      ClHandleChange(i, "maxPrice", t)
    \/ handleRunBacktest
    \/ sent # <<>> /\ RespondOk(PlainAnswer(sent[1]))
    \/ onBack

SpecValid == Init /\ [][NextValid]_vars

----------------------------------------------------------------------------
(* Scenario: lending cards that borrow.  The user picks the supply asset,  *)
(* borrows USDC against BNB, types a borrow amount, and allocates half of  *)
(* what is left.                                                           *)

NextBorrow ==
    \/ handleNewBacktest
    \/ ~loading /\ \E a \in Assets : handleAddAsset(a)
    \/ ~loading /\ \E k \in 1..Len(portfolio) : handleRemoveAsset(k)
    \/ ~loading /\ \E k \in 1..Len(portfolio) :
                      handleAssetBalanceChange(k, T100)
    \/ ~loading /\ Len(strategies) < MaxStrategies
               /\ \E t \in {"lending", "perps"} : handleAddStrategy(t)
    \/ ~loading /\ \E i \in 1..Len(strategies) : handleRemoveStrategy(i)
    \/ ~loading /\ \E i \in 1..Len(strategies) : handleAllocationChange(i, 50)
    \/ ~loading /\ \E i \in 1..Len(strategies), a \in Assets :
                      handleStrategyAssetChange(i, a)
    \/ ~loading /\ \E i \in 1..Len(strategies), a \in {"none", "USDC"} :
                      LendingHandleChange(i, "borrowAsset", a)
    \/ ~loading /\ \E i \in 1..Len(strategies) :
                      LendingHandleChange(i, "borrowAmount", T50)
    \/ handleRunBacktest
    \/ sent # <<>> /\ RespondOk(PlainAnswer(sent[1]))
    \/ onBack

SpecBorrow == Init /\ [][NextBorrow]_vars

----------------------------------------------------------------------------
(* Scenario: the remaining panels of a longer list.  The user funds the    *)
(* assets, stacks up to MaxRows lending and perps cards, allocates half of *)
(* what each finds, lets lending cards borrow USDC, and runs.              *)

MaxRows == 3

NextPanel ==
    \/ handleNewBacktest
    \/ ~loading /\ \E a \in Assets : handleAddAsset(a)
    \/ ~loading /\ \E k \in 1..Len(portfolio) :
                      handleAssetBalanceChange(k, T100)
    \/ ~loading /\ Len(strategies) < MaxRows
               /\ \E t \in {"lending", "perps"} : handleAddStrategy(t)
    \/ ~loading /\ \E i \in 1..Len(strategies) : handleAllocationChange(i, 50)
    \/ ~loading /\ \E i \in 1..Len(strategies) :
                      LendingHandleChange(i, "borrowAsset", "USDC")
    \/ ~loading /\ \E i \in 1..Len(strategies) :
                      LendingHandleChange(i, "borrowAmount", T50)
    \/ handleRunBacktest
    \/ sent # <<>> /\ RespondOk(PlainAnswer(sent[1]))
    \/ onBack

SpecPanel == Init /\ [][NextPanel]_vars

----------------------------------------------------------------------------
(* Scenario: what the results view shows.  The user funds both assets,     *)
(* adds perps, lending and CL cards (a CL card gets a USDC amount and a    *)
(* lower bound), runs, and the server answers any result of each item's    *)
(* shape, of any length up to MaxSteps.                                    *)

NextResults ==
    \/ handleNewBacktest
    \/ ~loading /\ \E a \in Assets : handleAddAsset(a)
    \/ ~loading /\ \E k \in 1..Len(portfolio) :
                      handleAssetBalanceChange(k, T100)
    \/ ~loading /\ Len(strategies) < MaxStrategies
               /\ \E t \in {"lending", "perps", "cl"} : handleAddStrategy(t)
    \/ ~loading /\ \E i \in 1..Len(strategies) : handleRemoveStrategy(i)
    \/ ~loading /\ \E i \in 1..Len(strategies) :
                      ClHandleChange(i, "amountUSDC", T50)
    \/ ~loading /\ \E i \in 1..Len(strategies) :
                      ClHandleChange(i, "minPrice", T300)
    \/ handleRunBacktest
    \/ \E res \in (IF sent # <<>> THEN Answers(sent[1]) ELSE {}) :
          RespondOk(res)
    \/ onBack

SpecResults == Init /\ [][NextResults]_vars

----------------------------------------------------------------------------
(* Scenario: a visitor without a session.  The user funds the portfolio,   *)
(* adds perps and lending cards and clicks Run Backtest before, during and *)
(* after connecting a wallet and signing in; the user may sign out.        *)

InitVisitor == InitWith(FALSE)

NextAuth ==
    \/ handleNewBacktest
    \/ ~loading /\ \E a \in Assets : handleAddAsset(a)
    \/ ~loading /\ \E k \in 1..Len(portfolio) :
                      handleAssetBalanceChange(k, T100)
    \/ ~loading /\ Len(strategies) < MaxStrategies
               /\ \E t \in {"lending", "perps"} : handleAddStrategy(t)
    \/ ~loading /\ \E i \in 1..Len(strategies) : handleRemoveStrategy(i)
    \/ handleRunBacktest
    \/ sent # <<>> /\ RespondOk(PlainAnswer(sent[1]))
    \/ RespondError
    \/ onBack
    \/ WalletConnects
    \/ handleLogin
    \/ LoginVerified
    \/ LoginUnverified
    \/ LoginFailed
    \/ ModalCloses
    \/ handleLogout

SpecAuth == InitVisitor /\ [][NextAuth]_vars

\* Every awaited call of a login settles, one way or another: the nonce,
\* signing and verify calls all answer or fail in the end.
LoginSettles == LoginVerified \/ LoginUnverified \/ LoginFailed

SpecAuthLive == InitVisitor /\ [][NextAuth]_vars /\ WF_vars(LoginSettles)

----------------------------------------------------------------------------
(* Scenario: the app has just mounted and the session check is still       *)
(* awaiting its answer.  The visitor of the previous scenario acts while   *)
(* getMe is in flight; it may answer with the session's address, without   *)
(* one, or fail.                                                           *)

SessionOutcomes == {"address", "noAddress", "rejected"}

InitMounting ==
    /\ currentView = "empty"
    /\ portfolio = <<>>
    /\ strategies = <<>>
    /\ modules = <<>>
    /\ isAuthenticated = FALSE
    /\ isConnected = FALSE
    /\ modalState = "null"
    /\ loading = FALSE
    /\ error = "null"
    /\ results = Null
    /\ lendingPositionHealth = [id \in {} |-> 0]
    /\ sent = <<>>
    /\ sessionCheck = "pending"
    /\ logins = NoLogins

NextSession ==
    \/ NextAuth
    \/ \E outcome \in SessionOutcomes : checkSessionAnswers(outcome)

SpecSession == InitMounting /\ [][NextSession]_vars

----------------------------------------------------------------------------
(* Scenario: perpetuals.  The user funds USDC, adds perps cards, flips the *)
(* direction, drags the leverage slider to its ends and in between, runs,  *)
(* and comes back from the results to cards that have mounted again.       *)

LeverageInputs == {1, 7, 20}

NextPerps ==
    \/ handleNewBacktest
    \/ ~loading /\ handleAddAsset("USDC")
    \/ ~loading /\ \E k \in 1..Len(portfolio) :
                      handleAssetBalanceChange(k, T100)
    \/ ~loading /\ Len(strategies) < MaxStrategies /\ handleAddStrategy("perps")
    \/ ~loading /\ \E i \in 1..Len(strategies) : handleRemoveStrategy(i)
    \/ ~loading /\ \E i \in 1..Len(strategies), d \in {"long", "short"} :
                      PerpsHandleChange(i, "direction", d)
    \/ ~loading /\ \E i \in 1..Len(strategies), l \in LeverageInputs :
                      PerpsHandleChange(i, "leverage", l)
    \/ handleRunBacktest
    \/ sent # <<>> /\ RespondOk(PlainAnswer(sent[1]))
    \/ onBack

SpecPerps == Init /\ [][NextPerps]_vars

----------------------------------------------------------------------------
(* Scenario: lending cards whose positions report their health.  The user  *)
(* funds assets, adds and removes lending and perps cards, and the lending *)
(* cards report a liquidatable (0) or a sound (2) position, or withdraw    *)
(* the report.                                                             *)

HealthInputs == {0, 2}

NextHealth ==
    \/ handleNewBacktest
    \/ ~loading /\ \E a \in Assets : handleAddAsset(a)
    \/ ~loading /\ \E k \in 1..Len(portfolio) :
                      handleAssetBalanceChange(k, T100)
    \/ ~loading /\ Len(strategies) < MaxStrategies
               /\ \E t \in {"lending", "perps"} : handleAddStrategy(t)
    \/ ~loading /\ \E i \in 1..Len(strategies) : handleRemoveStrategy(i)
    \/ ~loading /\ \E i \in 1..Len(strategies) :
                      handleAllocationChange(i, 50)
    \/ ~loading /\ \E i \in 1..Len(strategies), h \in HealthInputs :
                      ReportHealth(i, h, FALSE)
    \/ ~loading /\ \E i \in 1..Len(strategies) : ReportHealth(i, 0, TRUE)
    \/ handleRunBacktest
    \/ sent # <<>> /\ RespondOk(PlainAnswer(sent[1]))
    \/ onBack

SpecHealth == Init /\ [][NextHealth]_vars

----------------------------------------------------------------------------
(* Properties of the request posted by Run Backtest.  A step posts when it *)
(* appends to `sent`; Posted is the request it appends.                    *)

Posting == Len(sent') > Len(sent)

Posted == sent'[Len(sent')]

IsPercentage(s) == s.type \in {"lending", "perps"}

\* The amount a request item commits for a percentage strategy.
ResolvedAmount(item) ==
    IF item.type = "lending" THEN item.params.supply_amount
    ELSE item.params.initial_collateral

\* Section 4.5 of the design: the balance of `asset` left after the
\* requests of `prior`, in list order; a percentage request on the asset
\* leaves (1 - p) of it, an absolute request takes its amount, floored at 0.
RECURSIVE RemainingAfter(_, _, _)
RemainingAfter(total, asset, prior) ==
    IF prior = <<>> THEN Max(0, total)
    ELSE LET before == RemainingAfter(total, asset,
                                      SubSeq(prior, 1, Len(prior) - 1))
             last   == prior[Len(prior)]
         IN  IF last.type = "cl"
             THEN Max(0, before - Amount(last.config,
                                         IF asset = "BNB" THEN "amountBNB"
                                         ELSE "amountUSDC"))
             ELSE IF last.asset = asset
             THEN (before * (100 - last.allocation)) \div 100
             ELSE before

\* C1: in every request posted, the amount of a percentage strategy
\* (lending, perps) is its allocation% of the balance of its asset that is
\* left after the strategies ahead of it, each earlier percentage strategy
\* on the same asset having left (1 - its allocation%) of what it found.
C1_SequentialAllocation ==
    [][Posting =>
        \A i \in 1..Len(strategies) :
            IsPercentage(strategies[i]) =>
                ResolvedAmount(Posted.items[i]) * 100 =
                    strategies[i].allocation
                      * RemainingAfter(
                          effectiveBalances(portfolio, strategies,
                                            strategies[i].asset),
                          strategies[i].asset, Prior(strategies, i))]_vars

\* C1 witness: a balance of 100 and two 50% strategies on it, in order,
\* have been posted as 50 then 25.
C1_Witness ==
    /\ sent # <<>>
    /\ Len(strategies) >= 2
    /\ Len(sent[1].items) >= 2
    /\ strategies[1].type = "lending" /\ strategies[2].type = "lending"
    /\ strategies[1].asset = "BNB" /\ strategies[2].asset = "BNB"
    /\ strategies[1].allocation = 50 /\ strategies[2].allocation = 50
    /\ BaseBalance(portfolio, "BNB") = 100 * Scale
    /\ sent[1].items[1].params.supply_amount = 50 * Scale
    /\ sent[1].items[2].params.supply_amount = 25 * Scale

\* C2 (as claimed): the balance the strategy at position i draws from holds
\* the borrowed amounts of the lending strategies before position i only.
C2_BorrowFromEarlierOnly ==
    [][Posting =>
        \A i \in 1..Len(strategies) :
            IsPercentage(strategies[i]) =>
                ResolvedAmount(Posted.items[i]) * 100 =
                    strategies[i].allocation
                      * seqRemaining(
                          BaseBalance(portfolio, strategies[i].asset)
                            + borrowedByAsset(Prior(strategies, i),
                                              strategies[i].asset),
                          strategies[i].asset, Prior(strategies, i))]_vars

availableTo(i, asset) ==
    seqRemaining(effectiveBalances(portfolio, strategies, asset), asset,
                 Prior(strategies, i))

\* C3 (as claimed): no request is posted while a CL strategy's BNB or USDC
\* amount exceeds what is left of that asset after the strategies ahead.
C3_ShortfallRejected ==
    [][Posting =>
        \A i \in 1..Len(strategies) :
            strategies[i].type = "cl" =>
                /\ Amount(strategies[i].config, "amountBNB")
                     <= availableTo(i, "BNB")
                /\ Amount(strategies[i].config, "amountUSDC")
                     <= availableTo(i, "USDC")]_vars

HasBlocker(i) == StrategyBlockers(portfolio, strategies, i) # <<>>

\* C4: no request, single or batch, is posted while any strategy of the
\* list has a run blocker.
C4_FailFast ==
    [][Posting => \A i \in 1..Len(strategies) : ~HasBlocker(i)]_vars

\* C4 witness: two strategies, one blocked and one not, a portfolio, the
\* workspace shown; Run Backtest is disabled and nothing is in flight.
C4_Witness ==
    /\ WorkspaceShown /\ Len(portfolio) > 0 /\ ~loading
    /\ Len(strategies) = 2
    /\ \E i, j \in 1..Len(strategies) : HasBlocker(i) /\ ~HasBlocker(j)
    /\ ~RunButtonEnabled
    /\ sent = <<>>

\* C5 (as claimed): for every asset and every prefix of the list, what is
\* left after a strategy is not negative and not more than what was left
\* before it.
C5_OnlyDepletes ==
    \A asset \in Assets : \A k \in 1..Len(strategies) :
        LET total  == effectiveBalances(portfolio, strategies, asset)
            before == seqRemaining(total, asset, SubSeq(strategies, 1, k - 1))
            after  == seqRemaining(total, asset, SubSeq(strategies, 1, k))
        IN  0 <= after /\ after <= before

Shown == data(results)

\* The step a strategy stands at on index i: its own, or its last one.
Standing(r, i) == r.steps[Min(i, Len(r.steps))]

\* C6: while results are shown, the merged curve has as many points as the
\* longest step sequence among the results; at each index each strategy
\* contributes the equity of its own step at that index, or of its last
\* step once its sequence has ended; the total is the sum of those.
C6_MergedCurve ==
    results # Null =>
        LET d == Shown
            c == chartData(d)
            Contribution(idx, i) == StepEquity(Standing(d[idx], i))
            RECURSIVE Total(_, _)
            Total(idx, i) == IF idx = 0 THEN 0
                             ELSE Total(idx - 1, i) + Contribution(idx, i)
        IN  /\ \A idx \in 1..Len(d) : Len(c) >= Len(d[idx].steps)
            /\ \E idx \in 1..Len(d) : Len(c) = Len(d[idx].steps)
            /\ \A i \in 1..Len(c) :
                  /\ \A idx \in 1..Len(d) :
                        c[i].strategy[idx] = Contribution(idx, i)
                  /\ c[i].total = Total(Len(d), i)

\* C6 witness: a batch is shown in which one sequence ended before another,
\* and past its end it stands at a last step that differs from its first.
C6_Witness ==
    /\ results # Null
    /\ \E a \in 1..Len(Shown) :
          /\ 1 < Len(Shown[a].steps)
          /\ Len(Shown[a].steps) < Len(chartData(Shown))
          /\ StepEquity(Shown[a].steps[1])
               # StepEquity(Shown[a].steps[Len(Shown[a].steps)])
          /\ chartData(Shown)[Len(chartData(Shown))].strategy[a]
               = StepEquity(Shown[a].steps[Len(Shown[a].steps)])

\* C7: while results are shown, the combined final equity is the sum of the
\* final_equity_usd, the combined PnL the sum of the final_pnl_usd, and the
\* combined ROI% is the combined PnL over the combined initial capital (the
\* sum of final_equity_usd - final_pnl_usd) times 100.
C7_CombinedSummary ==
    results # Null =>
        LET d == Shown
            a == aggregateStats(d)
            RECURSIVE Sum(_, _)
            Sum(f(_), n) == IF n = 0 THEN 0 ELSE Sum(f, n - 1) + f(n)
            FinalOf(n)   == d[n].summary.final_equity_usd
            PnLOf(n)     == d[n].summary.final_pnl_usd
            InitialOf(n) == FinalOf(n) - PnLOf(n)
        IN  /\ a.final = Sum(FinalOf, Len(d))
            /\ a.pnl = Sum(PnLOf, Len(d))
            /\ a.roi.num * Sum(InitialOf, Len(d))
                 = Sum(PnLOf, Len(d)) * 100 * a.roi.den

\* C7 witness: a batch is shown whose combined ROI% differs from the mean
\* of its strategies' roi_percentage.
C7_Witness ==
    /\ results # Null
    /\ Len(Shown) > 1
    /\ LET a == aggregateStats(Shown)
           b == aggregateStatsAveraged(Shown)
       IN  /\ a.initial > 0
           /\ a.roi.num * b.roi.den # b.roi.num * a.roi.den

\* C11: a request is posted only by a step taken while the user is
\* authenticated; while the user is not, no step posts or starts a run (the
\* step that signs the user in included), and a click on Run Backtest only
\* sets the modal: 'connect' without a wallet, 'sign' with one.
C11_AuthorizedOnly ==
    [][/\ Posting => isAuthenticated
       /\ ~isAuthenticated =>
            /\ ~Posting /\ (loading' => loading)
            /\ handleRunBacktest =>
                  modalState' = IF isConnected THEN "sign" ELSE "connect"]_vars

\* C11 witness: Run Backtest was clickable and nothing was ever posted; the
\* user has just signed in, the success modal is still up, and no run
\* started by itself.
C11_Witness ==
    /\ isAuthenticated /\ modalState = "success"
    /\ RunButtonEnabled
    /\ sent = <<>> /\ ~loading /\ results = Null /\ error = "null"

\* The type a request item carries for a strategy type.
ItemType(type) ==
    CASE type = "lending" -> "lending"
      [] type = "perps"   -> "perp"
      [] type = "cl"      -> "clmm"

\* C12: a run posts exactly one request, with none in flight, and nothing
\* else ever posts (no retry after an error); one strategy goes to its
\* type's endpoint, two or more go as one batch whose items are as many as
\* the strategies and in their order.
C12_OneRequestPerRun ==
    [][Posting =>
        /\ sent = <<>> /\ Len(sent') = 1 /\ ~loading
        /\ RunButtonEnabled
        /\ Len(Posted.items) = Len(strategies)
        /\ \A i \in 1..Len(strategies) :
              Posted.items[i].type = ItemType(strategies[i].type)
        /\ Posted.endpoint =
             IF Len(strategies) = 1
             THEN CASE strategies[1].type = "lending" -> "/backtest/lending"
                    [] strategies[1].type = "perps"   -> "/backtest/perp"
                    [] strategies[1].type = "cl"      -> "/backtest/clmm"
             ELSE "/backtest/batch"]_vars

\* C12 witness: a batch of two strategies of different types is in
\* flight, once.
C12_Witness ==
    /\ error = "null" /\ loading
    /\ Len(sent) = 1
    /\ sent[1].endpoint = "/backtest/batch"
    /\ Len(sent[1].items) = 2
    /\ sent[1].items[1].type # sent[1].items[2].type

PerpItems(req) == {i \in 1..Len(req.items) : req.items[i].type = "perp"}

\* C13: every perpetual request posted has a leverage from 1 to 20, after
\* any slider changes and when the slider was never moved.
C13_LeverageInRange ==
    [][Posting =>
        \A i \in PerpItems(Posted) :
            /\ Posted.items[i].params.leverage >= 1
            /\ Posted.items[i].params.leverage <= 20]_vars

\* C13 witness: a batch is in flight with a card that was never touched
\* and a card whose slider was dragged to 20.
C13_Witness ==
    /\ Len(sent) = 1 /\ Len(strategies) = 2
    /\ PerpItems(sent[1]) = {1, 2}
    /\ \E i, j \in {1, 2} :
          /\ strategies[i].config = EmptyConfig
          /\ sent[1].items[i].params.leverage = 1
          /\ strategies[j].config # EmptyConfig
          /\ sent[1].items[j].params.leverage = 20

\* C14 (as claimed): the is_long posted for a perpetual strategy is the
\* direction its module shows as selected.
C14_DirectionAsShown ==
    [][Posting =>
        \A i \in PerpItems(Posted) :
            Posted.items[i].params.is_long
              = (modules[i].direction = "long")]_vars

\* The borrow asset a lending strategy has selected when the run is built.
BorrowAssetOf(st) ==
    IF "borrowAsset" \in DOMAIN st.config THEN st.config.borrowAsset
    ELSE "none"

\* C15 (as claimed): a lending strategy whose borrow asset is 'none' when
\* the run is built is posted with borrow_amount 0, which is also what it
\* adds to the borrowed pool.
C15_NoBorrowAssetNoBorrow ==
    [][Posting =>
        \A i \in 1..Len(strategies) :
            (strategies[i].type = "lending"
               /\ BorrowAssetOf(strategies[i]) = "none") =>
                /\ Posted.items[i].params.borrow_amount = 0
                /\ Posted.items[i].params.borrow_amount
                     = borrowedByAsset(<<strategies[i]>>, "BNB")
                         + borrowedByAsset(<<strategies[i]>>, "USDC")]_vars

\* The strategy list with one field of card i's config emptied.
WithFieldEmptied(strats, i, f) ==
    [strats EXCEPT ![i].config = [strats[i].config EXCEPT ![f] = <<>>]]

\* C16 (as claimed): for a CL strategy with one amount above 0 and the
\* other 0, emptying the bound that is not required (min price when the
\* USDC amount is 0, max price when the BNB amount is 0) changes neither
\* the run blockers nor the request.
C16_DisabledBoundIgnored ==
    \A i \in 1..Len(strategies) :
        (strategies[i].type = "cl" /\ strategies[i].config # EmptyConfig) =>
            LET c    == strategies[i].config
                bnb  == Amount(c, "amountBNB")
                usdc == Amount(c, "amountUSDC")
                Same(f) ==
                    LET other == WithFieldEmptied(strategies, i, f)
                    IN  /\ runBlockers(portfolio, other)
                          = runBlockers(portfolio, strategies)
                        /\ Request(portfolio, other)
                          = Request(portfolio, strategies)
            IN  /\ (bnb > 0 /\ usdc = 0) => Same("minPrice")
                /\ (usdc > 0 /\ bnb = 0) => Same("maxPrice")

\* The entries of `map` whose strategy is still in the list after the
\* strategy of rank i has left it, under the ranks of the new list.
KeptAfterRemoval(map, i) ==
    LET keys == {[t |-> "string", v |-> IF k.v > i THEN k.v - 1 ELSE k.v] :
                    k \in {key \in DOMAIN map : key.v # i}}
        Was(k) == IF k.v >= i THEN [k EXCEPT !.v = k.v + 1] ELSE k
    IN  [k \in keys |-> map[Was(k)]]

ShownRemaining(i, asset) ==
    LET row == RemainingPanel(portfolio, strategies, i, asset)
    IN  IF row.shown THEN row.remainingAmt ELSE 0

\* C18 (as claimed): in every request posted, the strategy at position
\* i + 1 draws its allocation% from the remaining amount of its asset that
\* the panel shows after the strategy at position i, also when a strategy
\* further down borrows that asset.
C18_PanelMatchesRequest ==
    [][Posting =>
        \A i \in 1..(Len(strategies) - 1) :
            IsPercentage(strategies[i + 1]) =>
                ResolvedAmount(Posted.items[i + 1]) * 100 =
                    strategies[i + 1].allocation
                      * ShownRemaining(i, strategies[i + 1].asset)]_vars

\* The asset a percentage strategy is funded from: USDC for perps, the
\* selected asset for lending.
AssetDrawn(s) == IF s.type = "perps" THEN "USDC" ELSE s.asset

\* The balance of `asset` left after the strategies of `prior`, a perps
\* strategy taking its share from USDC and from nothing else.
RECURSIVE RemainingAfterDrawn(_, _, _)
RemainingAfterDrawn(total, asset, prior) ==
    IF prior = <<>> THEN Max(0, total)
    ELSE LET before == RemainingAfterDrawn(total, asset,
                                           SubSeq(prior, 1, Len(prior) - 1))
             last   == prior[Len(prior)]
         IN  IF last.type = "cl"
             THEN Max(0, before - Amount(last.config,
                                         IF asset = "BNB" THEN "amountBNB"
                                         ELSE "amountUSDC"))
             ELSE IF AssetDrawn(last) = asset
             THEN (before * (100 - last.allocation)) \div 100
             ELSE before

\* C19: in every request posted, a perps strategy's initial_collateral is
\* its allocation% of the USDC left after the strategies ahead of it, and
\* a lending strategy's supply amount is its allocation% of what is left
\* of its asset, a perps strategy ahead having reduced USDC only.
C19_PerpsDrawUsdc ==
    [][Posting =>
        \A i \in 1..Len(strategies) :
            IsPercentage(strategies[i]) =>
                ResolvedAmount(Posted.items[i]) * 100 =
                    strategies[i].allocation
                      * RemainingAfterDrawn(
                          BaseBalance(portfolio, AssetDrawn(strategies[i]))
                            + borrowedByAsset(strategies,
                                              AssetDrawn(strategies[i])),
                          AssetDrawn(strategies[i]),
                          Prior(strategies, i))]_vars

\* A request was posted for a perps strategy allocating half of 100 USDC,
\* followed by a lending strategy allocating half of 100 BNB: the perps
\* collateral is 50 and the lending supply is 50, BNB untouched by perps.
C19_Witness ==
    /\ sent # <<>>
    /\ Len(sent[1].items) = 2
    /\ BaseBalance(portfolio, "BNB") = 100 * Scale
    /\ BaseBalance(portfolio, "USDC") = 100 * Scale
    /\ sent[1].items[1].type = "perp"
    /\ sent[1].items[1].params.initial_collateral = 50 * Scale
    /\ sent[1].items[2].type = "lending"
    /\ sent[1].items[2].params.is_bnb_supply
    /\ sent[1].items[2].params.supply_amount = 50 * Scale

IsLendingStep(step) ==
    "supply_bnb" \in DOMAIN step \/ "supply_usdc" \in DOMAIN step

\* Supply value minus borrow value of a lending step, the BNB leg converted
\* at `price`.
NetValue(step, price) ==
    IF "supply_bnb" \in DOMAIN step
    THEN step.supply_bnb * price - step.borrow_usdc
    ELSE step.supply_usdc - step.borrow_bnb * price

\* C20 (as claimed): while results are shown, the merged curve's value for
\* a lending strategy at each index is the supply value minus the borrow
\* value of the step it stands at, the BNB leg converted at the price of
\* the dataset's sample at that same step.
C20_LendingAtStepPrice ==
    results # Null =>
        LET d == Shown
            c == chartData(d)
        IN  \A i \in 1..Len(c), idx \in 1..Len(d) :
                IsLendingStep(Standing(d[idx], i)) =>
                    c[i].strategy[idx] =
                        NetValue(Standing(d[idx], i),
                                 SamplePrice(Min(i, Len(d[idx].steps)) - 1))

\* C21 (as claimed): whatever the state New Backtest is invoked in, the
\* workspace afterwards shows the empty configuration: the portfolio and
\* the strategy list are empty and no results of an earlier run are shown.
C21_NewBacktestClears ==
    [][handleNewBacktest =>
        /\ currentView' = "newBacktest"
        /\ portfolio' = <<>>
        /\ strategies' = <<>>
        /\ results' = Null]_vars

\* C22 (as claimed): whenever the auth modal is in 'loading', it leaves
\* 'loading' in the end, whatever the nonce, signing and verify calls
\* answer, a verify answer without an address included.
C22_LoadingEnds ==
    (modalState = "loading") ~> (modalState # "loading")

\* C23 (as claimed): the user becomes authenticated only by the answer of
\* a login or of the session check that no logout has overtaken: a call
\* already awaiting when a logout completed never authenticates the user.
C23_NoStaleAuthentication ==
    [][(~isAuthenticated /\ isAuthenticated') =>
          \/ logins'.fresh < logins.fresh
          \/ sessionCheck = "pending" /\ sessionCheck' = "done"]_vars

ClItems(req) == {i \in 1..Len(req.items) : req.items[i].type = "clmm"}

\* C8 (as claimed): every CL request posted has a BNB or a USDC amount
\* greater than 0.
C8_SomeAmountPositive ==
    [][Posting =>
        \A i \in ClItems(Posted) :
            \/ Posted.items[i].params.initial_token0 > 0
            \/ Posted.items[i].params.initial_token1 > 0]_vars

\* C9: no CL request is posted with a USDC amount > 0 and no min_price (0),
\* nor with a BNB amount > 0 and no max_price (0).
C9_RequiredBoundPresent ==
    [][Posting =>
        \A i \in ClItems(Posted) :
            LET q == Posted.items[i].params
            IN  /\ q.initial_token1 > 0 => q.min_price # 0
                /\ q.initial_token0 > 0 => q.max_price # 0]_vars

\* C9 witness: a single-asset USDC position is in flight with its required
\* lower bound and without the upper one.
C9_Witness ==
    /\ sent # <<>>
    /\ \E i \in ClItems(sent[1]) :
          LET q == sent[1].items[i].params
          IN  q.initial_token1 > 0 /\ q.min_price > 0
              /\ q.initial_token0 = 0 /\ q.max_price = 0

====
